---- MODULE Spec2Model ----
(***************************************************************************)
(* PaperproofDecorations (latest revision, paperproof.contribution.ts      *)
(* lines 186-505): an editor contribution that, on cursor / content /      *)
(* model / provider-registry events, asks a proof-tree provider for the    *)
(* proof state at the cursor and paints hypothesis chips (decorations) and *)
(* goals (view zones + content widgets).                                   *)
(*                                                                         *)
(* The program state is kept in the variables below.  Handlers are written *)
(* as operators from a state record s to the state record after the        *)
(* handler, so that a handler that calls another (_update calls            *)
(* _removeAllDecorations and _updateDecorations) is one atomic step, as it *)
(* is one synchronous JavaScript task.  The only suspension point is the   *)
(* await of provider.provideProofTree: a request is "in flight" from the   *)
(* call until the provider answers, and answers arrive in any order.       *)
(*                                                                         *)
(* The editor (ICodeEditor), its text models and the provider registry are *)
(* the host.  The host operations are modelled after the documented        *)
(* behaviour of the editor API the contribution calls: decorations live in *)
(* a text model and are removed from it when the editor detaches from it;  *)
(* view zones live in the view, which exists only while a model is         *)
(* attached; content widgets live in the editor; changeDecorations and     *)
(* changeViewZones do not call their callback when no model is attached;   *)
(* an exception thrown in a changeViewZones callback is caught by the host.*)
(***************************************************************************)
EXTENDS Integers, Sequences, FiniteSets, TLC

VARIABLES
    edModel,            \* editor.getModel(): the attached text model or NoModel
    position,           \* editor.getPosition(): cursor line, NoPosition without a model
    registry,           \* languageFeaturesService.proofTreeProvider: registered providers
    modelLines,         \* per text model: its lines (edited in the per-line revision only)
    decorations,        \* per text model: the decorations owned by this editor
    zones,              \* view zones of the current view
    widgets,            \* content widgets registered in the editor
    _idPool,            \* GoalContentWidget._idPool
    _decorationIds,     \* PaperproofDecorations._decorationIds
    _viewZoneIds,       \* PaperproofDecorations._viewZoneIds
    _contentWidgets,    \* PaperproofDecorations._contentWidgets
    proofTreeProvider,  \* PaperproofDecorations.proofTreeProvider
    sessionListeners,   \* listeners held by _sessionDisposables
    disposed,           \* the contribution was disposed
    inflight,           \* updates suspended at their await of provideProofTree
    issued,             \* number of provideProofTree calls made so far
    lastCall,           \* arguments of the provideProofTree call of the last step, if any
    event,              \* history: the kind of the last step
    lastPaint,          \* history: the request and answer of the update completed by the last step
    latestState,        \* history: the latest request answered with a proof state so far
    pin,                \* input of the pure-function specifications
    pout                \* output of the pure-function specifications

vars == << edModel, position, registry, modelLines, decorations, zones, widgets,
           _idPool, _decorationIds, _viewZoneIds,
           _contentWidgets, proofTreeProvider, sessionListeners, disposed,
           inflight, issued, lastCall, event, lastPaint, latestState, pin, pout >>

-----------------------------------------------------------------------------
(* Bounds *)

\* provideProofTree calls made in one behaviour
MaxRequests == 2
\* length of the token sequences the converted trees are built from
MaxTreeTokens == 6
\* length of the token sequences the provider's proof trees are built from
MaxTacticTokens == 4

-----------------------------------------------------------------------------
(* The host's data: text models, providers *)

Models == {"A", "B"}
NoModel == "none"
NoPosition == 0
Providers == {"P1", "P2"}
Undefined == "undefined"

\* A line is the sequence of its characters; " " is whitespace.
\* A:  "x" / "  x" / ""        B:  "x" / " x"
Content(m) ==
    IF m = "A" THEN << <<"x">>, <<" ", " ", "x">>, <<>> >>
               ELSE << <<"x">>, <<" ", "x">> >>

getLineCount(m) == Len(Content(m))

\* ITextModel.getLineContent throws for a line outside 1..getLineCount().
getLineContentThrows(m, lineNumber) ==
    lineNumber < 1 \/ lineNumber > getLineCount(m)

getLineContent(m, lineNumber) == Content(m)[lineNumber]

\* String.prototype.trim().length
RECURSIVE TrimLength(_)
TrimLength(line) ==
    IF line = <<>> THEN 0
    ELSE IF Head(line) = " " THEN TrimLength(Tail(line))
    ELSE IF line[Len(line)] = " " THEN TrimLength(SubSeq(line, 1, Len(line) - 1))
    ELSE Len(line)

\* String.prototype.search(/\S/): 0-based index of the first non-whitespace
\* character, -1 when there is none.
RECURSIVE SearchNonSpaceFrom(_, _)
SearchNonSpaceFrom(line, i) ==
    IF i > Len(line) THEN -1
    ELSE IF line[i] # " " THEN i - 1
    ELSE SearchNonSpaceFrom(line, i + 1)

SearchNonSpace(line) == SearchNonSpaceFrom(line, 1)

\* LanguageFeatureRegistry.all(model): the registered providers whose selector
\* matches the model, best first.  P1 matches every model, P2 only model B
\* and is the better match there.
ProviderMatches(p, m) == p = "P1" \/ m = "B"

all(reg, m) ==
    LET p2 == IF "P2" \in reg /\ ProviderMatches("P2", m) THEN << "P2" >> ELSE << >>
        p1 == IF "P1" \in reg /\ ProviderMatches("P1", m) THEN << "P1" >> ELSE << >>
    IN  p2 \o p1

-----------------------------------------------------------------------------
(* Sequence helpers *)

Range(seq) == { seq[i] : i \in DOMAIN seq }

RECURSIVE FlatMap(_, _)
\* Array.prototype.flatMap with a sequence-valued callback F
FlatMap(F(_), seq) ==
    IF seq = << >> THEN << >> ELSE F(Head(seq)) \o FlatMap(F, Tail(seq))

RECURSIVE MapSeq(_, _)
MapSeq(F(_), seq) ==
    IF seq = << >> THEN << >> ELSE << F(Head(seq)) >> \o MapSeq(F, Tail(seq))

-----------------------------------------------------------------------------
(* Pure functions of the contribution *)

\* `x ?? d`
OrElse(x, d) == IF x = Undefined THEN d ELSE x

\* Faulty variant of getHypChips: the default of the text is used for a missing name
getHypChipsWrongDefault(tree) ==
    FlatMap(LAMBDA box :
        FlatMap(LAMBDA hypLayer :
            MapSeq(LAMBDA hyp :
                [ name       |-> OrElse(hyp.name, "no text"),
                  lineNumber |-> hypLayer.lineNumber,
                  hypothesis |-> OrElse(hyp.text, "no text") ],
                hypLayer.hypNodes),
            box.hypLayers),
        tree.boxes)

\* getHypChips: one chip per hypothesis node, boxes / layers / nodes in order
getHypChips(tree) ==
    FlatMap(LAMBDA box :
        FlatMap(LAMBDA hypLayer :
            MapSeq(LAMBDA hyp :
                [ name       |-> OrElse(hyp.name, "no name"),
                  lineNumber |-> hypLayer.lineNumber,
                  hypothesis |-> OrElse(hyp.text, "no text") ],
                hypLayer.hypNodes),
            box.hypLayers),
        tree.boxes)

\* Faulty variant of Handled: handled.add is never called
HandledNone(proofTree) == {}

\* _getProofTree, the `handled` set once the first flatMap has run
Handled(proofTree) == { proofTree[i].goalBefore.id : i \in DOMAIN proofTree }

\* _getProofTree, `goals` followed by `moreGoals`
ExtractGoals(proofTree) ==
    LET handled == Handled(proofTree)
        goals == MapSeq(LAMBDA tactic :
                     [ lineNumber |-> tactic.lineNumber - 1,
                       goal       |-> tactic.goalBefore.type ],
                     proofTree)
        lastLineNumber ==
            IF Len(proofTree) > 0 THEN proofTree[Len(proofTree)].lineNumber ELSE 0
        unhandled == FlatMap(LAMBDA tactic :
                         SelectSeq(tactic.goalsAfter, LAMBDA g : g.id \notin handled),
                         proofTree)
        moreGoals == MapSeq(LAMBDA g : [ lineNumber |-> lastLineNumber, goal |-> g.type ],
                            unhandled)
    IN  goals \o moreGoals

\* converter(proofTree) is defined outside this file; an answer of the
\* provider carries the tree the converter makes of it.
converter(proofState) == proofState.converted

\* _updateDecorations, the decorations pushed for the chips
ChipDecorations(hypChips) ==
    FlatMap(LAMBDA hypChip :
        IF hypChip.lineNumber = 0 THEN << >>
        ELSE << [ lineNumber |-> hypChip.lineNumber, content |-> "  ",
                  inlineClassName |-> "" ],
                [ lineNumber |-> hypChip.lineNumber, content |-> hypChip.name,
                  inlineClassName |-> "paperproof-hypothesis-name" ],
                [ lineNumber |-> hypChip.lineNumber,
                  content |-> ": " \o hypChip.hypothesis,
                  inlineClassName |-> "paperproof-hypothesis-type" ] >>,
        hypChips)

\* The keys of goalsByLineNumber in insertion order
RECURSIVE GoalLines(_, _)
GoalLines(goals, seen) ==
    IF goals = << >> THEN << >>
    ELSE IF Head(goals).lineNumber \in seen THEN GoalLines(Tail(goals), seen)
    ELSE << Head(goals).lineNumber >>
         \o GoalLines(Tail(goals), seen \cup { Head(goals).lineNumber })

\* goalsByLineNumber.entries(): per line, the goals of that line in order
goalsByLineNumber(goals) ==
    MapSeq(LAMBDA l :
        [ lineNumber |-> l,
          goals |-> MapSeq(LAMBDA g : g.goal,
                           SelectSeq(goals, LAMBDA g : g.lineNumber = l)) ],
        GoalLines(goals, {}))

-----------------------------------------------------------------------------
(* The state as a record, so that handlers compose *)

NoCall == [ provider |-> Undefined, model |-> NoModel, position |-> NoPosition ]

\* The state at the start of a step: no call made in this step yet
S == [ edModel |-> edModel, position |-> position, registry |-> registry,
       modelLines |-> modelLines,
       decorations |-> decorations, zones |-> zones, widgets |-> widgets,
       _idPool |-> _idPool, _decorationIds |-> _decorationIds,
       _viewZoneIds |-> _viewZoneIds, _contentWidgets |-> _contentWidgets,
       proofTreeProvider |-> proofTreeProvider,
       sessionListeners |-> sessionListeners, disposed |-> disposed,
       inflight |-> inflight, issued |-> issued, lastCall |-> NoCall ]

Is(s) ==
    /\ edModel = s.edModel
    /\ position = s.position
    /\ registry = s.registry
    /\ modelLines = s.modelLines
    /\ decorations = s.decorations
    /\ zones = s.zones
    /\ widgets = s.widgets
    /\ _idPool = s._idPool
    /\ _decorationIds = s._decorationIds
    /\ _viewZoneIds = s._viewZoneIds
    /\ _contentWidgets = s._contentWidgets
    /\ proofTreeProvider = s.proofTreeProvider
    /\ sessionListeners = s.sessionListeners
    /\ disposed = s.disposed
    /\ inflight = s.inflight
    /\ issued = s.issued
    /\ lastCall = s.lastCall

Becomes(s) ==
    /\ edModel' = s.edModel
    /\ position' = s.position
    /\ registry' = s.registry
    /\ modelLines' = s.modelLines
    /\ decorations' = s.decorations
    /\ zones' = s.zones
    /\ widgets' = s.widgets
    /\ _idPool' = s._idPool
    /\ _decorationIds' = s._decorationIds
    /\ _viewZoneIds' = s._viewZoneIds
    /\ _contentWidgets' = s._contentWidgets
    /\ proofTreeProvider' = s.proofTreeProvider
    /\ sessionListeners' = s.sessionListeners
    /\ disposed' = s.disposed
    /\ inflight' = s.inflight
    /\ issued' = s.issued
    /\ lastCall' = s.lastCall

-----------------------------------------------------------------------------
(* Host operations (ICodeEditor, ITextModel) *)

\* ICodeEditor.removeDecorations: on the attached model; ids the model does
\* not hold are ignored.
removeDecorations(s, ids) ==
    IF s.edModel = NoModel \/ ids = << >> THEN s
    ELSE [ s EXCEPT !.decorations[s.edModel] = { d \in @ : d.id \notin Range(ids) } ]

\* The host never hands out an id twice.  Ids are opaque, so the model hands
\* out the smallest ids that are neither held by the host nor by the
\* contribution at the time of the call.
RECURSIVE FreshIds(_, _, _)
FreshIds(used, n, from) ==
    IF n = 0 THEN << >>
    ELSE IF from \in used THEN FreshIds(used, n, from + 1)
    ELSE << from >> \o FreshIds(used, n - 1, from + 1)

DecorationIdsInUse(s) ==
    UNION { { d.id : d \in s.decorations[m] } : m \in Models } \cup Range(s._decorationIds)

ZoneIdsInUse(s) == { z.id : z \in s.zones } \cup Range(s._viewZoneIds)

\* the ids deltaDecorations returns for n new decorations
deltaDecorationsIds(s, n) == FreshIds(DecorationIdsInUse(s), n, 1)

\* the id addZone returns
addZoneId(s) == FreshIds(ZoneIdsInUse(s), 1, 1)[1]

\* IModelDecorationsChangeAccessor.deltaDecorations on the attached model:
\* removes the old ids it holds, adds the new decorations under fresh ids.
\* `req` is the request the decorations were derived from (history).
deltaDecorations(s, oldIds, newDecorations, req) ==
    LET n == Len(newDecorations)
        newIds == deltaDecorationsIds(s, n)
        added == { [ id |-> newIds[i],
                     lineNumber |-> newDecorations[i].lineNumber,
                     content |-> newDecorations[i].content,
                     inlineClassName |-> newDecorations[i].inlineClassName,
                     from |-> req.seq, fromModel |-> req.model ] : i \in 1..n }
    IN  [ s EXCEPT !.decorations[s.edModel] =
                       { d \in @ : d.id \notin Range(oldIds) } \cup added ]

\* ICodeEditor.changeViewZones / changeDecorations: the callback runs only
\* while a model is attached.
changeViewZones(s, Callback(_)) == IF s.edModel = NoModel THEN s ELSE Callback(s)

changeDecorations(s, Callback(_)) == IF s.edModel = NoModel THEN s ELSE Callback(s)

-----------------------------------------------------------------------------
(* PaperproofDecorations *)

\* The body of the changeViewZones callbacks that drop what is tracked
RemoveZonesAndWidgets(s) ==
    [ s EXCEPT !.zones = { z \in @ : z.id \notin Range(s._viewZoneIds) },
               !._viewZoneIds = << >>,
               !.widgets = { w \in @ :
                               w.id \notin { x.id : x \in Range(s._contentWidgets) } },
               !._contentWidgets = << >> ]

_removeAllDecorations(s) ==
    LET s1 == removeDecorations(s, s._decorationIds)
        s2 == [ s1 EXCEPT !._decorationIds = << >> ]
    IN  changeViewZones(s2, RemoveZonesAndWidgets)

\* _getProofTree up to its await: provider.provideProofTree(model, position).
\* The suspended update keeps the `model` it captured; `seq` numbers the
\* calls (history).
_getProofTree(s) ==
    IF s.edModel = NoModel \/ s.proofTreeProvider = Undefined \/ s.position = NoPosition
    THEN s
    ELSE [ s EXCEPT !.issued = @ + 1,
                    !.lastCall = [ provider |-> s.proofTreeProvider,
                                   model |-> s.edModel,
                                   position |-> s.position ],
                    !.inflight = @ \cup { [ seq |-> s.issued + 1,
                                            model |-> s.edModel ] } ]

\* Faulty variant of _updateDecorations: no new request while one is in flight
_updateDecorationsSkipBusy(s) ==
    IF s.edModel = NoModel \/ s.proofTreeProvider = Undefined \/ s.position = NoPosition
       \/ s.inflight # {}
    THEN s
    ELSE _getProofTree(s)

\* Faulty variant of _updateDecorations: the provider is not checked
_updateDecorationsUnguarded(s) ==
    IF s.edModel = NoModel THEN s
    ELSE [ s EXCEPT !.issued = @ + 1,
                    !.lastCall = [ provider |-> s.proofTreeProvider,
                                   model |-> s.edModel,
                                   position |-> s.position ],
                    !.inflight = @ \cup { [ seq |-> s.issued + 1,
                                            model |-> s.edModel ] } ]

\* _updateDecorations up to its await
_updateDecorations(s) ==
    IF s.edModel = NoModel \/ s.proofTreeProvider = Undefined \/ s.position = NoPosition
    THEN s
    ELSE _getProofTree(s)

\* Faulty variant of _update: the session disposables are not cleared
_updateKeepListeners(s) ==
    LET s2 == _removeAllDecorations(s)
        s3 == [ s2 EXCEPT !.sessionListeners = @ + 1 ]
    IN  _updateDecorations(s3)

_update(s) ==
    LET s1 == [ s EXCEPT !.sessionListeners = 0 ]
        s2 == _removeAllDecorations(s1)
        s3 == [ s2 EXCEPT !.sessionListeners = @ + 1 ]
    IN  _updateDecorations(s3)

\* Faulty variant of PaintGoals: _idPool is not incremented
RECURSIVE PaintGoalsSameId(_, _, _, _)
PaintGoalsSameId(s, entries, model, req) ==
    IF entries = << >> THEN s
    ELSE
      LET lineNumber == Head(entries).lineNumber
          goals == Head(entries).goals
          goalViewZone == [ id |-> addZoneId(s), afterLineNumber |-> lineNumber,
                            heightInPx |-> 20 * Len(goals),
                            from |-> req.seq, fromModel |-> req.model ]
          s1 == [ s EXCEPT !.zones = @ \cup { goalViewZone },
                           !._viewZoneIds = Append(@, goalViewZone.id) ]
      IN  IF getLineContentThrows(model, lineNumber) THEN s1
          ELSE
            LET prevLine == getLineContent(model, lineNumber)
                nextLine == IF lineNumber + 1 < getLineCount(model)
                            THEN getLineContent(model, lineNumber + 1) ELSE << >>
                line == IF TrimLength(nextLine) > 0 THEN nextLine ELSE prevLine
                column == SearchNonSpace(line) + 1
                widget == [ id |-> s1._idPool, lineNumber |-> lineNumber,
                            column |-> column, texts |-> goals,
                            from |-> req.seq, fromModel |-> req.model ]
                s2 == [ s1 EXCEPT !._contentWidgets = Append(@, widget),
                                  !.widgets = @ \cup { widget } ]
            IN  PaintGoalsSameId(s2, Tail(entries), model, req)

\* The loop over goalsByLineNumber.entries().  `model` is the model captured
\* when the update started.  getLineContent throws for a line that is not in
\* the model; the zone of that line is then already added and tracked, its
\* widget and the remaining lines are not.
RECURSIVE PaintGoals(_, _, _, _)
PaintGoals(s, entries, model, req) ==
    IF entries = << >> THEN s
    ELSE
      LET lineNumber == Head(entries).lineNumber
          goals == Head(entries).goals
          goalViewZone == [ id |-> addZoneId(s), afterLineNumber |-> lineNumber,
                            heightInPx |-> 20 * Len(goals),
                            from |-> req.seq, fromModel |-> req.model ]
          s1 == [ s EXCEPT !.zones = @ \cup { goalViewZone },
                           !._viewZoneIds = Append(@, goalViewZone.id) ]
      IN  IF getLineContentThrows(model, lineNumber) THEN s1
          ELSE
            LET prevLine == getLineContent(model, lineNumber)
                nextLine == IF lineNumber + 1 < getLineCount(model)
                            THEN getLineContent(model, lineNumber + 1) ELSE << >>
                line == IF TrimLength(nextLine) > 0 THEN nextLine ELSE prevLine
                column == SearchNonSpace(line) + 1
                widget == [ id |-> s1._idPool, lineNumber |-> lineNumber,
                            column |-> column, texts |-> goals,
                            from |-> req.seq, fromModel |-> req.model ]
                s2 == [ s1 EXCEPT !._idPool = @ + 1,
                                  !._contentWidgets = Append(@, widget),
                                  !.widgets = @ \cup { widget } ]
            IN  PaintGoals(s2, Tail(entries), model, req)

\* Faulty variant of PaintChips: the old ids are not passed to deltaDecorations
PaintChipsKeepOld(s, hypChips, req) ==
    LET decorations_ == ChipDecorations(hypChips)
        newDecorationIds == deltaDecorationsIds(s, Len(decorations_))
        s1 == deltaDecorations(s, << >>, decorations_, req)
    IN  [ s1 EXCEPT !._decorationIds = newDecorationIds ]

\* Faulty variant of PaintChips: deltaDecorations is called inside the chip loop, so
\* it is not called at all when no chip has a line
PaintChipsInLoop(s, hypChips, req) ==
    LET decorations_ == ChipDecorations(hypChips)
        newDecorationIds == deltaDecorationsIds(s, Len(decorations_))
        s1 == deltaDecorations(s, s._decorationIds, decorations_, req)
    IN  IF decorations_ = << >> THEN s
        ELSE [ s1 EXCEPT !._decorationIds = newDecorationIds ]

\* The chip part of the changeDecorations callback: one deltaDecorations call
\* after the loop replaces the tracked ids by those of the new decorations.
PaintChips(s, hypChips, req) ==
    LET decorations_ == ChipDecorations(hypChips)
        newDecorationIds == deltaDecorationsIds(s, Len(decorations_))
        s1 == deltaDecorations(s, s._decorationIds, decorations_, req)
    IN  [ s1 EXCEPT !._decorationIds = newDecorationIds ]

\* Faulty variant of _updateDecorationsResume: an answer without a proof tree
\* clears what is displayed
_updateDecorationsResumeClear(s, req, answer) ==
    IF answer.kind # "state" THEN _removeAllDecorations(s)
    ELSE
      LET tree == converter(answer)
          goals == ExtractGoals(answer.proofTree)
          hypChips == getHypChips(tree)
          Zones(t) == PaintGoals(RemoveZonesAndWidgets(t),
                                 goalsByLineNumber(goals), req.model, req)
          Decorate(t) == changeViewZones(PaintChips(t, hypChips, req), Zones)
      IN  changeDecorations(s, Decorate)

\* _updateDecorations after its await: `answer` is what provideProofTree
\* resolved to for the request `req`.
_updateDecorationsResume(s, req, answer) ==
    IF answer.kind # "state" THEN s
    ELSE
      LET tree == converter(answer)
          goals == ExtractGoals(answer.proofTree)
          hypChips == getHypChips(tree)
          Zones(t) == PaintGoals(RemoveZonesAndWidgets(t),
                                 goalsByLineNumber(goals), req.model, req)
          Decorate(t) == changeViewZones(PaintChips(t, hypChips, req), Zones)
      IN  changeDecorations(s, Decorate)

-----------------------------------------------------------------------------
(* What the provider may answer *)

Goal(i, t) == [ id |-> i, type |-> t ]
Tactic(l, before, after) == [ lineNumber |-> l, goalBefore |-> before, goalsAfter |-> after ]
HypNode(n, t) == [ name |-> n, text |-> t ]
HypLayer(l, nodes) == [ lineNumber |-> l, hypNodes |-> nodes ]
Box(layers) == [ hypLayers |-> layers ]
Tree(boxes) == [ boxes |-> boxes ]

g1 == Goal("g1", "T1")
g2 == Goal("g2", "T2")
g3 == Goal("g3", "T3")

TreeEmpty == Tree(<< >>)
TreeOne == Tree(<< Box(<< HypLayer(2, << HypNode("h", "p") >>) >>) >>)
TreeZero == Tree(<< Box(<< HypLayer(0, << HypNode("h", "p") >>) >>) >>)
TreeTwo == Tree(<< Box(<< HypLayer(0, << HypNode("h", "p") >>),
                          HypLayer(1, << HypNode(Undefined, Undefined) >>) >>) >>)

ProofState(proofTree, tree) ==
    [ kind |-> "state", proofTree |-> proofTree, converted |-> tree ]

\* provideProofTree resolves to undefined, to a state without proofTree, or
\* to a state with a proofTree.
Answers ==
    { [ kind |-> "undefined" ],
      [ kind |-> "noTree" ],
      ProofState(<< >>, TreeEmpty),
      ProofState(<< Tactic(2, g1, << g2 >>) >>, TreeOne),
      ProofState(<< Tactic(2, g1, << g2, g3 >>), Tactic(2, g2, << >>) >>, TreeZero),
      ProofState(<< Tactic(1, g1, << >>) >>, TreeTwo),
      ProofState(<< Tactic(3, g1, << g2 >>) >>, TreeOne) }

\* The provider answers about the model it was asked about: tactic lines are
\* lines of that model.
AnswerFits(answer, m) ==
    answer.kind = "state" =>
        \A i \in DOMAIN answer.proofTree :
            answer.proofTree[i].lineNumber \in 1..getLineCount(m)

-----------------------------------------------------------------------------
(* Specification *)

NoPaint == [ kind |-> "none" ]
NoInput == [ f |-> "none" ]
NoOutput == [ done |-> FALSE ]

\* The editor before the contribution is constructed
Fresh(m, reg) ==
    [ edModel |-> m, position |-> IF m = NoModel THEN NoPosition ELSE 1,
      registry |-> reg,
      modelLines |-> [ x \in Models |-> Content(x) ],
      decorations |-> [ x \in Models |-> {} ], zones |-> {}, widgets |-> {},
      _idPool |-> 0, _decorationIds |-> << >>, _viewZoneIds |-> << >>,
      _contentWidgets |-> << >>, proofTreeProvider |-> Undefined,
      sessionListeners |-> 0, disposed |-> FALSE,
      inflight |-> {}, issued |-> 0, lastCall |-> NoCall ]

\* The constructor: registers the listeners and runs _update()
Constructed(m, reg) == _update(Fresh(m, reg))

Init ==
    /\ \E m \in Models \cup { NoModel }, reg \in SUBSET Providers :
           Is(Constructed(m, reg))
    /\ event = "init"
    /\ lastPaint = NoPaint
    /\ latestState = 0
    /\ pin = NoInput
    /\ pout = NoOutput

\* A step of the editor: the state after the handlers ran
Step(s, kind) ==
    /\ s.issued <= MaxRequests
    /\ Becomes(s)
    /\ event' = kind
    /\ lastPaint' = NoPaint
    /\ UNCHANGED << latestState, pin, pout >>

\* editor.onDidChangeCursorPosition: the listener is not registered with the
\* contribution's disposables.
CursorPositionChange ==
    /\ edModel # NoModel
    /\ \E l \in 1..getLineCount(edModel) :
           /\ l # position
           /\ Step(_updateDecorations([ S EXCEPT !.position = l ]), "cursor")

RECURSIVE FireContentListeners(_, _)
FireContentListeners(s, n) ==
    IF n = 0 THEN s ELSE FireContentListeners(_updateDecorations(s), n - 1)

\* editor.onDidChangeModelContent: every session listener runs _updateDecorations
ContentChange ==
    /\ edModel # NoModel
    /\ Step(FireContentListeners(S, sessionListeners), "content")

\* editor.setModel(m): detach (the view and its zones go), attach, fire
\* onDidChangeModel, then drop the editor's decorations from the detached model.
SetModel ==
    \E m \in (Models \cup { NoModel }) \ { edModel } :
        LET s1 == [ S EXCEPT !.edModel = m,
                             !.position = IF m = NoModel THEN NoPosition ELSE 1,
                             !.zones = {} ]
            s2 == IF disposed THEN s1 ELSE _update(s1)
            s3 == IF edModel = NoModel THEN s2
                  ELSE [ s2 EXCEPT !.decorations[edModel] = {} ]
        IN  Step(s3, "model")

\* Faulty variant of onDidChangeProvider: the last provider listed is selected
onDidChangeProviderLast(s) ==
    IF s.edModel = NoModel THEN s
    ELSE LET providers == all(s.registry, s.edModel)
             s1 == IF Len(providers) = 0
                   THEN [ s EXCEPT !.proofTreeProvider = Undefined ]
                   ELSE [ s EXCEPT !.proofTreeProvider = providers[Len(providers)] ]
         IN  _update(s1)

\* The listener of languageFeaturesService.proofTreeProvider.onDidChange
onDidChangeProvider(s) ==
    IF s.edModel = NoModel THEN s
    ELSE LET providers == all(s.registry, s.edModel)
             s1 == IF Len(providers) = 0
                   THEN [ s EXCEPT !.proofTreeProvider = Undefined ]
                   ELSE [ s EXCEPT !.proofTreeProvider = providers[1] ]
         IN  _update(s1)

\* A provider is registered or unregistered
RegistryChange ==
    \E p \in Providers :
        LET s1 == [ S EXCEPT !.registry = IF p \in @ THEN @ \ { p } ELSE @ \cup { p } ]
        IN  Step(IF disposed THEN s1 ELSE onDidChangeProvider(s1), "registry")

\* provideProofTree resolves and _updateDecorations runs to its end
Complete ==
    \E req \in inflight, answer \in Answers :
        /\ AnswerFits(answer, req.model)
        /\ LET s1 == [ S EXCEPT !.inflight = @ \ { req } ]
           IN  /\ Becomes(_updateDecorationsResume(s1, req, answer))
               /\ event' = "answer"
               /\ lastPaint' = [ kind |-> "paint", req |-> req, answer |-> answer,
                                 ran |-> answer.kind = "state" /\ edModel # NoModel ]
               /\ latestState' = IF answer.kind = "state" /\ req.seq > latestState
                                 THEN req.seq ELSE latestState
               /\ UNCHANGED << pin, pout >>

Next ==
    \/ CursorPositionChange
    \/ ContentChange
    \/ SetModel
    \/ RegistryChange
    \/ Complete

\* The contribution from its construction until it is disposed
Spec == Init /\ [][Next]_vars

-----------------------------------------------------------------------------
(* What is tracked and what is displayed *)

TrackedDecorationIds == Range(_decorationIds)
ExistingDecorationIds == UNION { { d.id : d \in decorations[m] } : m \in Models }
TrackedZoneIds == Range(_viewZoneIds)
ExistingZoneIds == { z.id : z \in zones }
TrackedWidgetIds == { w.id : w \in Range(_contentWidgets) }
ExistingWidgetIds == { w.id : w \in widgets }

\* The annotations the editor shows: those of the attached model and its view
ShownDecorations == IF edModel = NoModel THEN {} ELSE decorations[edModel]
ShownZones == IF edModel = NoModel THEN {} ELSE zones
ShownWidgets == IF edModel = NoModel THEN {} ELSE widgets

\* The requests, and the models of the requests, the shown annotations derive from
ShownFrom ==
    { d.from : d \in ShownDecorations } \cup { z.from : z \in ShownZones }
        \cup { w.from : w \in ShownWidgets }
ShownFromModel ==
    { d.fromModel : d \in ShownDecorations } \cup { z.fromModel : z \in ShownZones }
        \cup { w.fromModel : w \in ShownWidgets }

\* The last step completed an update whose changeDecorations callback ran
Painted == lastPaint.kind = "paint" /\ lastPaint.ran

-----------------------------------------------------------------------------
(* C1 - C6: concurrency and bookkeeping *)

\* C1: latest request wins.  Once no request is outstanding, what is shown
\* derives from the most recently issued request.  Stated for the case that
\* the most recent request was answered with a proof state (an answer without
\* one paints nothing), so that only an earlier request completing later can
\* violate it.
C1_LatestRequestWins ==
    (inflight = {} /\ issued > 0 /\ latestState = issued) => ShownFrom \subseteq { issued }

\* C2: decoration bookkeeping.  _decorationIds holds exactly the ids of the
\* paperproof decorations that exist in any model, each once; right after an
\* update painted, every tracked decoration is one of that update (the
\* previous ids were replaced).
C2_DecorationBookkeeping ==
    /\ TrackedDecorationIds = ExistingDecorationIds
    /\ Cardinality(TrackedDecorationIds) = Len(_decorationIds)
    /\ Painted => \A m \in Models : \A d \in decorations[m] : d.from = lastPaint.req.seq

\* C2 witness: a second update replaced the decorations of the first
C2_Witness ==
    /\ Painted /\ lastPaint.req.seq = 2
    /\ _decorationIds # << >>
    /\ 1 \notin TrackedDecorationIds

\* C3: view-zone and widget bookkeeping.  _viewZoneIds and _contentWidgets
\* have equal length, hold exactly the zones and widgets that exist, and the
\* zones and widgets that exist are those of one update.
C3_ZoneWidgetBookkeeping ==
    /\ Len(_viewZoneIds) = Len(_contentWidgets)
    /\ TrackedZoneIds = ExistingZoneIds
    /\ TrackedWidgetIds = ExistingWidgetIds
    /\ Cardinality({ z.from : z \in zones } \cup { w.from : w \in widgets }) <= 1

\* C4: annotations are only painted on the model they were fetched for.
C4_PaintedOnOwnModel == ShownFromModel \subseteq { edModel }

\* C5: every cursor-position change and every content change that happens
\* while the contribution is live and the editor has a model, a selected
\* provider and a position makes exactly one provideProofTree call, with the
\* editor's model and position of that moment, and suspends one update on it.
C5_RecomputeOnChange ==
    [][ ( /\ event' \in { "cursor", "content" }
          /\ ~disposed'
          /\ edModel' # NoModel /\ proofTreeProvider' # Undefined
          /\ position' # NoPosition )
        => ( /\ issued' = issued + 1
             /\ lastCall' = [ provider |-> proofTreeProvider', model |-> edModel',
                              position |-> position' ]
             /\ inflight \subseteq inflight'
             /\ inflight' \ inflight = { [ seq |-> issued', model |-> edModel' ] } )
      ]_vars

\* C5 witness: a content change made a call while an earlier one was in flight
C5_Witness ==
    event = "content" /\ lastCall # NoCall /\ Cardinality(inflight) = 2

\* C6: when the model changes, or the registry changes while a model is
\* attached, nothing stays tracked or displayed after the handler.
C6_ClearedOnChange ==
    [][ ( edModel' # edModel \/ (registry' # registry /\ edModel # NoModel) )
        => ( /\ _decorationIds' = << >>
             /\ _viewZoneIds' = << >>
             /\ _contentWidgets' = << >>
             /\ \A m \in Models : decorations'[m] = {}
             /\ zones' = {}
             /\ widgets' = {} )
      ]_vars

-----------------------------------------------------------------------------
(* C9, C10: what a completed update paints *)

\* The goals of line L, in their order in the goals list
GoalsOn(goals, L) ==
    MapSeq(LAMBDA g : g.goal, SelectSeq(goals, LAMBDA g : g.lineNumber = L))

\* C9: after a completed update with a proof state there is one tracked zone
\* and one tracked widget per distinct goal line; the zone of line L is after
\* line L and 20 px high per goal of L, the widget of L is anchored at L and
\* lists the goals of L in order.
C9_OneZoneOneWidgetPerGoalLine ==
    Painted =>
        LET goals == ExtractGoals(lastPaint.answer.proofTree)
            lines == { goals[i].lineNumber : i \in DOMAIN goals }
        IN  /\ Len(_viewZoneIds) = Cardinality(lines)
            /\ Len(_contentWidgets) = Cardinality(lines)
            /\ \A L \in lines :
                   /\ \E z \in zones :
                          /\ z.id \in TrackedZoneIds
                          /\ z.afterLineNumber = L
                          /\ z.heightInPx = 20 * Len(GoalsOn(goals, L))
                   /\ \E w \in Range(_contentWidgets) :
                          /\ w \in widgets
                          /\ w.lineNumber = L
                          /\ w.texts = GoalsOn(goals, L)

\* The chips that get decorations: those whose line is not 0
ChipsWithLine(hypChips) == SelectSeq(hypChips, LAMBDA c : c.lineNumber # 0)

DecorationWithId(id) == CHOOSE d \in decorations[edModel] : d.id = id

\* C10: after a completed update with chips H the tracked decorations are
\* exactly three per chip of H whose line is not 0, in chip order: a spacer,
\* the name, and ": " followed by the hypothesis, all on the chip's line; chips
\* of line 0 get none, and with no chip of a non-zero line nothing is tracked
\* and no decoration is left.
C10_ChipDecorations ==
    Painted =>
        LET H == ChipsWithLine(getHypChips(converter(lastPaint.answer)))
        IN  /\ Len(_decorationIds) = 3 * Len(H)
            /\ TrackedDecorationIds = { d.id : d \in decorations[edModel] }
            /\ Cardinality(decorations[edModel]) = 3 * Len(H)
            /\ \A k \in DOMAIN H :
                   LET spacer == DecorationWithId(_decorationIds[3 * k - 2])
                       name == DecorationWithId(_decorationIds[3 * k - 1])
                       type == DecorationWithId(_decorationIds[3 * k])
                   IN  /\ spacer.lineNumber = H[k].lineNumber
                       /\ spacer.content = "  "
                       /\ name.lineNumber = H[k].lineNumber
                       /\ name.content = H[k].name
                       /\ type.lineNumber = H[k].lineNumber
                       /\ type.content = ": " \o H[k].hypothesis

\* C10 witness: an update with no chip of a non-zero line completed while the
\* editor showed goals, and left no decoration
C10_Witness ==
    /\ Painted
    /\ lastPaint.req.seq = 2
    /\ getHypChips(converter(lastPaint.answer)) # << >>
    /\ _decorationIds = << >>
    /\ _viewZoneIds # << >>

-----------------------------------------------------------------------------
(* The pure functions on their own: getHypChips and the goal extraction of  *)
(* _getProofTree, applied to every input of a bounded family.               *)

\* A converted tree is built from a token sequence: "B" opens a box, "L0" /
\* "L2" open a hypothesis layer of line 0 / 2 in the last box, "Nhp", "N_q",
\* "Nk_" add a node (name h text p / no name, text q / name k, no text) to the
\* last layer.
TreeTokens == { "B", "L0", "L2", "Nhp", "N_q", "Nk_" }

TokenLayer(tk) == HypLayer(IF tk = "L0" THEN 0 ELSE 2, << >>)
TokenNode(tk) ==
    IF tk = "Nhp" THEN HypNode("h", "p")
    ELSE IF tk = "N_q" THEN HypNode(Undefined, "q")
    ELSE HypNode("k", Undefined)

RECURSIVE BuildTree(_, _)
BuildTree(tokens, boxes) ==
    IF tokens = << >> THEN Tree(boxes)
    ELSE
      LET tk == Head(tokens)
          nb == Len(boxes)
          layers == boxes[nb].hypLayers
          nl == Len(layers)
      IN  IF tk = "B" THEN BuildTree(Tail(tokens), Append(boxes, Box(<< >>)))
          ELSE IF tk \in { "L0", "L2" }
          THEN BuildTree(Tail(tokens),
                         [ boxes EXCEPT ![nb].hypLayers = Append(@, TokenLayer(tk)) ])
          ELSE BuildTree(Tail(tokens),
                         [ boxes EXCEPT ![nb].hypLayers[nl].hypNodes =
                                            Append(@, TokenNode(tk)) ])

\* A layer needs a box, a node needs a layer in the last box.
\* depth: 0 no box yet, 1 in a box without layer, 2 in a layer
RECURSIVE TreeTokensValid(_, _)
TreeTokensValid(tokens, depth) ==
    IF tokens = << >> THEN TRUE
    ELSE IF Head(tokens) = "B" THEN TreeTokensValid(Tail(tokens), 1)
    ELSE IF Head(tokens) \in { "L0", "L2" }
    THEN depth >= 1 /\ TreeTokensValid(Tail(tokens), 2)
    ELSE depth = 2 /\ TreeTokensValid(Tail(tokens), 2)

SeqsUpTo(tokens, n) == UNION { [ 1..k -> tokens ] : k \in 0..n }

PureTrees ==
    { BuildTree(tokens, << >>) :
        tokens \in { s \in SeqsUpTo(TreeTokens, MaxTreeTokens) : TreeTokensValid(s, 0) } }

\* A proof tree is built from a token sequence: "T<line><goal>" adds a tactic
\* of that line and goalBefore, "A<goal>" adds a goal to the goalsAfter of the
\* last tactic.
TacticTokens == { "T1g1", "T2g1", "T2g2", "T3g3", "Ag1", "Ag2", "Ag3" }

TokenGoal(tk) ==
    IF tk \in { "T1g1", "T2g1", "Ag1" } THEN g1
    ELSE IF tk \in { "T2g2", "Ag2" } THEN g2
    ELSE g3

TokenLine(tk) == IF tk = "T1g1" THEN 1 ELSE IF tk = "T3g3" THEN 3 ELSE 2

IsAfterToken(tk) == tk \in { "Ag1", "Ag2", "Ag3" }

RECURSIVE BuildProofTree(_, _)
BuildProofTree(tokens, tactics) ==
    IF tokens = << >> THEN tactics
    ELSE
      LET tk == Head(tokens)
      IN  IF IsAfterToken(tk)
          THEN BuildProofTree(Tail(tokens),
                   [ tactics EXCEPT ![Len(tactics)].goalsAfter = Append(@, TokenGoal(tk)) ])
          ELSE BuildProofTree(Tail(tokens),
                   Append(tactics, Tactic(TokenLine(tk), TokenGoal(tk), << >>)))

PureProofTrees ==
    { BuildProofTree(tokens, << >>) :
        tokens \in { s \in SeqsUpTo(TacticTokens, MaxTacticTokens) :
                        s = << >> \/ ~IsAfterToken(s[1]) } }

InitPure ==
    /\ Is(Constructed(NoModel, {}))
    /\ event = "init"
    /\ lastPaint = NoPaint
    /\ latestState = 0
    /\ pout = NoOutput
    /\ \/ \E tree \in PureTrees : pin = [ f |-> "getHypChips", arg |-> tree ]
       \/ \E proofTree \in PureProofTrees : pin = [ f |-> "goals", arg |-> proofTree ]

MainUnchanged ==
    UNCHANGED << edModel, position, registry, modelLines, decorations, zones, widgets,
                 _idPool,
                 _decorationIds, _viewZoneIds, _contentWidgets, proofTreeProvider,
                 sessionListeners, disposed, inflight, issued, lastCall, event,
                 lastPaint, latestState >>

CallGetHypChips ==
    /\ pin.f = "getHypChips" /\ ~pout.done
    /\ pout' = [ done |-> TRUE, value |-> getHypChips(pin.arg) ]
    /\ pin' = pin
    /\ MainUnchanged

CallExtractGoals ==
    /\ pin.f = "goals" /\ ~pout.done
    /\ pout' = [ done |-> TRUE, value |-> ExtractGoals(pin.arg) ]
    /\ pin' = pin
    /\ MainUnchanged

NextPure == CallGetHypChips \/ CallExtractGoals

SpecPure == InitPure /\ [][NextPure]_vars

\* u comes before v in the lexicographic order of index tuples
RECURSIVE LexLess(_, _)
LexLess(u, v) ==
    /\ u # << >>
    /\ \/ Head(u) < Head(v)
       \/ Head(u) = Head(v) /\ LexLess(Tail(u), Tail(v))

\* The position of index tuple u among the tuples of set U, in that order
Rank(u, U) == 1 + Cardinality({ v \in U : LexLess(v, u) })

\* The <<box, layer, node>> indices of the hypothesis nodes of a tree
NodeIndices(tree) ==
    UNION { UNION { { << b, l, n >> : n \in DOMAIN tree.boxes[b].hypLayers[l].hypNodes } :
                        l \in DOMAIN tree.boxes[b].hypLayers } :
                b \in DOMAIN tree.boxes }

\* C7: getHypChips returns one chip per hypothesis node, in box, layer, node
\* order, carrying the layer's lineNumber, the node's name or "no name" and
\* the node's text or "no text".
C7_GetHypChips ==
    (pin.f = "getHypChips" /\ pout.done) =>
        LET tree == pin.arg
            chips == pout.value
            U == NodeIndices(tree)
        IN  /\ Len(chips) = Cardinality(U)
            /\ \A u \in U :
                   LET layer == tree.boxes[u[1]].hypLayers[u[2]]
                       node == layer.hypNodes[u[3]]
                       chip == chips[Rank(u, U)]
                   IN  /\ chip.lineNumber = layer.lineNumber
                       /\ chip.name = IF node.name = Undefined THEN "no name" ELSE node.name
                       /\ chip.hypothesis =
                              IF node.text = Undefined THEN "no text" ELSE node.text

\* C7 witness: a tree of two boxes, one node each, one lacking its name and
\* the other its text
C7_Witness ==
    /\ pin.f = "getHypChips" /\ pout.done
    /\ Len(pin.arg.boxes) = 2
    /\ \A b \in 1..2 : Len(pin.arg.boxes[b].hypLayers) = 1
    /\ Len(pout.value) = 2
    /\ pout.value[1].name = "no name"
    /\ pout.value[2].hypothesis = "no text"

\* The <<tactic, goal>> indices of the goalsAfter entries that are no tactic's goalBefore
UnhandledIndices(proofTree) ==
    LET before == { proofTree[i].goalBefore.id : i \in DOMAIN proofTree }
    IN  UNION { { << i, j >> : j \in { k \in DOMAIN proofTree[i].goalsAfter :
                                         proofTree[i].goalsAfter[k].id \notin before } } :
                    i \in DOMAIN proofTree }

\* C8: the goals list is one entry (lineNumber - 1, goalBefore.type) per
\* tactic, in order, followed by one entry at the last tactic's lineNumber per
\* goalsAfter entry, in order, whose id is no tactic's goalBefore id.
C8_GoalExtraction ==
    (pin.f = "goals" /\ pout.done) =>
        LET proofTree == pin.arg
            goals == pout.value
            n == Len(proofTree)
            U == UnhandledIndices(proofTree)
        IN  /\ Len(goals) = n + Cardinality(U)
            /\ \A i \in 1..n :
                   goals[i] = [ lineNumber |-> proofTree[i].lineNumber - 1,
                                goal |-> proofTree[i].goalBefore.type ]
            /\ \A u \in U :
                   goals[n + Rank(u, U)] =
                       [ lineNumber |-> proofTree[n].lineNumber,
                         goal |-> proofTree[u[1]].goalsAfter[u[2]].type ]

\* C8 witness: a goal that is a later tactic's goalBefore is left out of the
\* trailing group, another goal is in it
C8_Witness ==
    /\ pin.f = "goals" /\ pout.done
    /\ Len(pin.arg) = 2
    /\ Len(pin.arg[1].goalsAfter) = 2
    /\ pin.arg[1].goalsAfter[1].id = pin.arg[2].goalBefore.id
    /\ Len(pout.value) = 3

-----------------------------------------------------------------------------
(* The first revision of the contribution (paperproof.contribution.ts lines *)
(* 1-184): decorations only, no goals.  deltaDecorations is called inside   *)
(* the loop over the chips, once per chip with a line, each time with the   *)
(* decorations pushed so far.                                               *)

\* _removeAllDecorations of the first revision
_removeAllDecorationsFirst(s) ==
    [ removeDecorations(s, s._decorationIds) EXCEPT !._decorationIds = << >> ]

\* _updateDecorations of the first revision up to its await: the guard, then
\* _getProofTree's own guard and its provideProofTree call
_updateDecorationsFirst(s) ==
    IF s.edModel = NoModel \/ s.proofTreeProvider = Undefined \/ s.position = NoPosition
    THEN s
    ELSE _getProofTree(s)

\* _update of the first revision
_updateFirst(s) ==
    LET s1 == [ s EXCEPT !.sessionListeners = 0 ]
        s2 == _removeAllDecorationsFirst(s1)
        s3 == [ s2 EXCEPT !.sessionListeners = @ + 1 ]
    IN  _updateDecorationsFirst(s3)

\* The loop of the changeDecorations callback of the first revision.
\* decorations_ is the list pushed so far.
RECURSIVE PaintChipsFirst(_, _, _, _)
PaintChipsFirst(s, hypChips, decorations_, req) ==
    IF hypChips = << >> THEN s
    ELSE IF Head(hypChips).lineNumber = 0
    THEN PaintChipsFirst(s, Tail(hypChips), decorations_, req)
    ELSE
      LET pushed == decorations_ \o ChipDecorations(<< Head(hypChips) >>)
          newDecorationIds == deltaDecorationsIds(s, Len(pushed))
          s1 == deltaDecorations(s, s._decorationIds, pushed, req)
      IN  PaintChipsFirst([ s1 EXCEPT !._decorationIds = newDecorationIds ],
                          Tail(hypChips), pushed, req)

\* The chips of an answer in the first revision: none without a tree
HypChipsFirst(answer) ==
    IF answer.kind = "state" THEN getHypChips(converter(answer)) ELSE << >>

\* _updateDecorations of the first revision after its await
_updateDecorationsResumeFirst(s, req, answer) ==
    LET Decorate(t) == PaintChipsFirst(t, HypChipsFirst(answer), << >>, req)
    IN  changeDecorations(s, Decorate)

\* provideProofTree resolves to undefined or to a proof tree
AnswersFirst == { a \in Answers : a.kind # "noTree" }

InitFirst ==
    /\ \E m \in Models \cup { NoModel }, reg \in SUBSET Providers :
           Is(_updateFirst(Fresh(m, reg)))
    /\ event = "init"
    /\ lastPaint = NoPaint
    /\ latestState = 0
    /\ pin = NoInput
    /\ pout = NoOutput

CursorPositionChangeFirst ==
    /\ edModel # NoModel
    /\ \E l \in 1..getLineCount(edModel) :
           /\ l # position
           /\ Step(_updateDecorationsFirst([ S EXCEPT !.position = l ]), "cursor")

RECURSIVE FireContentListenersFirst(_, _)
FireContentListenersFirst(s, n) ==
    IF n = 0 THEN s ELSE FireContentListenersFirst(_updateDecorationsFirst(s), n - 1)

ContentChangeFirst ==
    /\ edModel # NoModel
    /\ Step(FireContentListenersFirst(S, sessionListeners), "content")

SetModelFirst ==
    \E m \in (Models \cup { NoModel }) \ { edModel } :
        LET s1 == [ S EXCEPT !.edModel = m,
                             !.position = IF m = NoModel THEN NoPosition ELSE 1 ]
            s2 == _updateFirst(s1)
            s3 == IF edModel = NoModel THEN s2
                  ELSE [ s2 EXCEPT !.decorations[edModel] = {} ]
        IN  Step(s3, "model")

onDidChangeProviderFirst(s) ==
    IF s.edModel = NoModel THEN s
    ELSE LET providers == all(s.registry, s.edModel)
             s1 == IF Len(providers) = 0
                   THEN [ s EXCEPT !.proofTreeProvider = Undefined ]
                   ELSE [ s EXCEPT !.proofTreeProvider = providers[1] ]
         IN  _updateFirst(s1)

RegistryChangeFirst ==
    \E p \in Providers :
        LET s1 == [ S EXCEPT !.registry = IF p \in @ THEN @ \ { p } ELSE @ \cup { p } ]
        IN  Step(onDidChangeProviderFirst(s1), "registry")

CompleteFirst ==
    \E req \in inflight, answer \in AnswersFirst :
        /\ AnswerFits(answer, req.model)
        /\ LET s1 == [ S EXCEPT !.inflight = @ \ { req } ]
           IN  /\ Becomes(_updateDecorationsResumeFirst(s1, req, answer))
               /\ event' = "answer"
               /\ lastPaint' = [ kind |-> "paint", req |-> req, answer |-> answer,
                                 ran |-> edModel # NoModel ]
               /\ latestState' = IF answer.kind = "state" /\ req.seq > latestState
                                 THEN req.seq ELSE latestState
               /\ UNCHANGED << pin, pout >>

NextFirst ==
    \/ CursorPositionChangeFirst
    \/ ContentChangeFirst
    \/ SetModelFirst
    \/ RegistryChangeFirst
    \/ CompleteFirst

SpecFirst == InitFirst /\ [][NextFirst]_vars

\* What a decoration shows
Shows(d) ==
    [ lineNumber |-> d.lineNumber, content |-> d.content,
      inlineClassName |-> d.inlineClassName ]

\* C11: in the first revision, after every completed update the decorations
\* in the editor are exactly those of the tree just fetched: three per chip
\* with a non-zero line, and none when the tree has no such chip or the
\* provider returned no tree.
C11_FirstRevisionDecorations ==
    Painted =>
        LET H == ChipsWithLine(HypChipsFirst(lastPaint.answer))
        IN  /\ Cardinality(decorations[edModel]) = 3 * Len(H)
            /\ Len(_decorationIds) = 3 * Len(H)
            /\ { Shows(d) : d \in decorations[edModel] } = Range(ChipDecorations(H))

-----------------------------------------------------------------------------
(* Disposal.  PaperproofDecorations does not override dispose():            *)
(* Disposable.dispose() disposes what was passed to _register, that is the  *)
(* registry listener, _sessionDisposables and the onDidChangeModel          *)
(* listener.  The onDidChangeCursorPosition listener was not registered and *)
(* stays; suspended updates resume when their provider answers.  The editor *)
(* is the host's and outlives the call.                                     *)

dispose(s) == [ s EXCEPT !.disposed = TRUE, !.sessionListeners = 0 ]

Dispose ==
    /\ ~disposed
    /\ Step(dispose(S), "dispose")

NextDispose ==
    \/ CursorPositionChange
    \/ ContentChange
    \/ SetModel
    \/ RegistryChange
    \/ Complete
    \/ Dispose

\* The contribution from its construction on, disposal included
SpecDispose == Init /\ [][NextDispose]_vars

\* C12: when the contribution is disposed, the decorations, view zones and
\* content widgets it tracks are removed from the editor: right after dispose
\* no paperproof annotation is displayed.
C12_DisposeRemovesTracked ==
    event = "dispose" =>
        /\ \A m \in Models : decorations[m] = {}
        /\ zones = {}
        /\ widgets = {}

\* C13: once disposed, no later event makes a provideProofTree call or changes
\* what the contribution tracks or the editor's annotations (the host itself
\* drops the zones and the detached model's decorations when the model
\* changes).
C13_NoActivityAfterDispose ==
    [][ disposed =>
          /\ issued' = issued
          /\ inflight' \subseteq inflight
          /\ _decorationIds' = _decorationIds
          /\ _viewZoneIds' = _viewZoneIds
          /\ _contentWidgets' = _contentWidgets
          /\ widgets' = widgets
          /\ (edModel' = edModel => decorations' = decorations /\ zones' = zones)
      ]_vars

-----------------------------------------------------------------------------
(* C14 - C18: provider selection, guards, listeners *)

\* C14: whenever the editor has a model and the registry lists a provider for
\* it, the selected provider is the first one listed.
C14_ProviderAvailable ==
    (edModel # NoModel /\ all(registry, edModel) # << >>)
        => proofTreeProvider = all(registry, edModel)[1]

\* C15: a registry change with a model attached selects the first provider
\* listed for the model, or undefined when none is, and then runs _update
\* (nothing stays tracked, one content listener, and an update is started
\* with the selected provider); without a model the selected provider and
\* everything else the contribution holds are left as they were.
C15_ProviderSelection ==
    [][ event' = "registry" =>
          IF edModel' = NoModel
          THEN /\ proofTreeProvider' = proofTreeProvider
               /\ issued' = issued
               /\ lastCall' = NoCall
               /\ UNCHANGED << _decorationIds, _viewZoneIds, _contentWidgets,
                               sessionListeners, decorations, zones, widgets >>
          ELSE LET providers == all(registry', edModel')
               IN  /\ proofTreeProvider' =
                          IF providers = << >> THEN Undefined ELSE providers[1]
                   /\ _decorationIds' = << >>
                   /\ _viewZoneIds' = << >>
                   /\ _contentWidgets' = << >>
                   /\ sessionListeners' = 1
                   /\ IF providers = << >>
                      THEN issued' = issued /\ lastCall' = NoCall
                      ELSE /\ issued' = issued + 1
                           /\ lastCall' = [ provider |-> providers[1],
                                            model |-> edModel',
                                            position |-> position' ]
      ]_vars

\* C15 witness: with two providers listed for model B the better one was
\* selected and asked
C15_Witness ==
    /\ event = "registry"
    /\ edModel = "B"
    /\ registry = { "P1", "P2" }
    /\ proofTreeProvider = "P2"
    /\ lastCall.provider = "P2"

\* C16: _updateDecorations invoked without a model, a selected provider or a
\* position makes no provideProofTree call; invoked by a cursor or content
\* change it leaves what is tracked and what is displayed unchanged (in
\* _update it runs after _removeAllDecorations, so there only the call is
\* stated).
C16_GuardedUpdate ==
    [][ ( /\ event' \in { "cursor", "content", "model", "registry" }
          /\ ( edModel' = NoModel \/ proofTreeProvider' = Undefined
               \/ position' = NoPosition ) )
        => ( /\ issued' = issued
             /\ inflight' = inflight
             /\ lastCall' = NoCall
             /\ event' \in { "cursor", "content" } =>
                    UNCHANGED << _decorationIds, _viewZoneIds, _contentWidgets,
                                 decorations, zones, widgets >> )
      ]_vars

\* C16 witness: the cursor moved while no provider was selected and
\* decorations of an earlier request were displayed
C16_Witness ==
    /\ event = "cursor"
    /\ proofTreeProvider = Undefined
    /\ _decorationIds # << >>
    /\ lastCall = NoCall

\* C17: an answer that is undefined or has no proofTree changes nothing of
\* what is tracked and displayed.
C17_EmptyResponseNoChange ==
    [][ ( event' = "answer" /\ lastPaint'.answer.kind \in { "undefined", "noTree" } )
        => UNCHANGED << _decorationIds, _viewZoneIds, _contentWidgets, _idPool,
                        decorations, zones, widgets >>
      ]_vars

\* C17 witness: an answer without proofTree arrived while decorations and a
\* goal of an earlier update were displayed
C17_Witness ==
    /\ event = "answer"
    /\ lastPaint.answer.kind = "noTree"
    /\ _decorationIds # << >>
    /\ _viewZoneIds # << >>
    /\ _contentWidgets # << >>

\* C18: between handlers, while the contribution is not disposed, it holds
\* exactly one content-change listener.
C18_SingleContentListener == ~disposed => sessionListeners = 1

\* C18 witness: _update has run at construction, on a registry change and on
\* a model change (requests for two models are in flight, the second made by
\* the model change)
C18_Witness ==
    /\ event = "model"
    /\ sessionListeners = 1
    /\ issued = 2
    /\ Cardinality({ r.model : r \in inflight }) = 2

-----------------------------------------------------------------------------
(* C19, C20: the lines and columns used while painting goals *)

\* C19: for answers whose tactic lines are lines of the model, every line
\* used while painting goals is a line of that model.  A zone is added after
\* line L right before getLineContent(L) is called, and a widget is anchored
\* at L right after, so the zones and widgets record the lines used.
C19_LineNumbersInRange ==
    /\ \A z \in zones : z.afterLineNumber \in 1..getLineCount(z.fromModel)
    /\ \A w \in widgets : w.lineNumber \in 1..getLineCount(w.fromModel)

IsBlank(line) == \A i \in DOMAIN line : line[i] = " "

\* The 1-based column of the first non-whitespace character of a line that has one
FirstNonSpaceColumn(line) ==
    CHOOSE i \in DOMAIN line :
        line[i] # " " /\ \A j \in 1..(i - 1) : line[j] = " "

\* C20: the widget of line L is at the column of the first non-whitespace
\* character of line L+1 when that line exists and is not blank, else of line
\* L; the column is at least 1.
C20_WidgetAlignment ==
    \A w \in widgets :
        LET m == w.fromModel
            L == w.lineNumber
            line == IF L + 1 <= getLineCount(m) /\ ~IsBlank(getLineContent(m, L + 1))
                    THEN getLineContent(m, L + 1)
                    ELSE getLineContent(m, L)
        IN  /\ w.column >= 1
            /\ ~IsBlank(line) => w.column = FirstNonSpaceColumn(line)

-----------------------------------------------------------------------------
(* The single-goal revision of the contribution (part_004): the chips as in *)
(* the latest revision, and one goal view zone and one goal content widget  *)
(* at the cursor line.  _goalViewZoneId and _contentWidget are undefined or *)
(* one value; they are kept in _viewZoneIds and _contentWidgets as          *)
(* sequences of length 0 or 1.                                              *)

\* The body of the changeViewZones callback of _removeAllDecorations, and the
\* same statements at the start of the callback of _updateDecorations
RemoveGoalSingle(s) ==
    [ s EXCEPT !.zones = { z \in @ : z.id \notin Range(s._viewZoneIds) },
               !._viewZoneIds = << >>,
               !.widgets = { w \in @ :
                               w.id \notin { x.id : x \in Range(s._contentWidgets) } },
               !._contentWidgets = << >> ]

_removeAllDecorationsSingle(s) ==
    LET s1 == removeDecorations(s, s._decorationIds)
        s2 == [ s1 EXCEPT !._decorationIds = << >> ]
    IN  changeViewZones(s2, RemoveGoalSingle)

\* _updateDecorations of part_004 up to its await
_updateDecorationsSingle(s) ==
    IF s.edModel = NoModel \/ s.proofTreeProvider = Undefined \/ s.position = NoPosition
    THEN s
    ELSE _getProofTree(s)

_updateSingle(s) ==
    LET s1 == [ s EXCEPT !.sessionListeners = 0 ]
        s2 == _removeAllDecorationsSingle(s1)
        s3 == [ s2 EXCEPT !.sessionListeners = @ + 1 ]
    IN  _updateDecorationsSingle(s3)

\* The chip part of the changeDecorations callback of part_004
PaintChipsSingle(s, hypChips, req) ==
    LET decorations_ == ChipDecorations(hypChips)
        newDecorationIds == deltaDecorationsIds(s, Len(decorations_))
        s1 == deltaDecorations(s, s._decorationIds, decorations_, req)
    IN  [ s1 EXCEPT !._decorationIds = newDecorationIds ]

\* The changeViewZones callback of _updateDecorations of part_004
PaintGoalSingle(s, req) ==
    LET cursorLineNumber == IF s.position = NoPosition THEN 0 ELSE s.position
        s1 == RemoveGoalSingle(s)
        goalViewZone == [ id |-> addZoneId(s), afterLineNumber |-> cursorLineNumber,
                          heightInPx |-> 20,
                          from |-> req.seq, fromModel |-> req.model ]
        widget == [ id |-> s1._idPool, lineNumber |-> cursorLineNumber,
                    column |-> 0, texts |-> << "xts" >>,
                    from |-> req.seq, fromModel |-> req.model ]
    IN  [ s1 EXCEPT !.zones = @ \cup { goalViewZone },
                    !._viewZoneIds = << goalViewZone.id >>,
                    !._idPool = @ + 1,
                    !._contentWidgets = << widget >>,
                    !.widgets = @ \cup { widget } ]

\* _updateDecorations of part_004 after its await
_updateDecorationsResumeSingle(s, req, answer) ==
    LET hypChips == IF answer.kind = "state" THEN getHypChips(converter(answer))
                    ELSE << >>
        Zones(t) == PaintGoalSingle(t, req)
        Decorate(t) == changeViewZones(PaintChipsSingle(t, hypChips, req), Zones)
    IN  changeDecorations(s, Decorate)

InitSingle ==
    /\ \E m \in Models \cup { NoModel }, reg \in SUBSET Providers :
           Is(_updateSingle(Fresh(m, reg)))
    /\ event = "init"
    /\ lastPaint = NoPaint
    /\ latestState = 0
    /\ pin = NoInput
    /\ pout = NoOutput

CursorPositionChangeSingle ==
    /\ edModel # NoModel
    /\ \E l \in 1..getLineCount(edModel) :
           /\ l # position
           /\ Step(_updateDecorationsSingle([ S EXCEPT !.position = l ]), "cursor")

RECURSIVE FireContentListenersSingle(_, _)
FireContentListenersSingle(s, n) ==
    IF n = 0 THEN s ELSE FireContentListenersSingle(_updateDecorationsSingle(s), n - 1)

ContentChangeSingle ==
    /\ edModel # NoModel
    /\ Step(FireContentListenersSingle(S, sessionListeners), "content")

SetModelSingle ==
    \E m \in (Models \cup { NoModel }) \ { edModel } :
        LET s1 == [ S EXCEPT !.edModel = m,
                             !.position = IF m = NoModel THEN NoPosition ELSE 1,
                             !.zones = {} ]
            s2 == _updateSingle(s1)
            s3 == IF edModel = NoModel THEN s2
                  ELSE [ s2 EXCEPT !.decorations[edModel] = {} ]
        IN  Step(s3, "model")

onDidChangeProviderSingle(s) ==
    IF s.edModel = NoModel THEN s
    ELSE LET providers == all(s.registry, s.edModel)
             s1 == IF Len(providers) = 0
                   THEN [ s EXCEPT !.proofTreeProvider = Undefined ]
                   ELSE [ s EXCEPT !.proofTreeProvider = providers[1] ]
         IN  _updateSingle(s1)

RegistryChangeSingle ==
    \E p \in Providers :
        LET s1 == [ S EXCEPT !.registry = IF p \in @ THEN @ \ { p } ELSE @ \cup { p } ]
        IN  Step(onDidChangeProviderSingle(s1), "registry")

CompleteSingle ==
    \E req \in inflight, answer \in AnswersFirst :
        /\ AnswerFits(answer, req.model)
        /\ LET s1 == [ S EXCEPT !.inflight = @ \ { req } ]
           IN  /\ Becomes(_updateDecorationsResumeSingle(s1, req, answer))
               /\ event' = "answer"
               /\ lastPaint' = [ kind |-> "paint", req |-> req, answer |-> answer,
                                 ran |-> edModel # NoModel ]
               /\ latestState' = IF answer.kind = "state" /\ req.seq > latestState
                                 THEN req.seq ELSE latestState
               /\ UNCHANGED << pin, pout >>

NextSingle ==
    \/ CursorPositionChangeSingle
    \/ ContentChangeSingle
    \/ SetModelSingle
    \/ RegistryChangeSingle
    \/ CompleteSingle

SpecSingle == InitSingle /\ [][NextSingle]_vars

\* C21: in the single-goal revision at most one goal zone and one goal widget
\* of the contribution exist; after a completed update they are the pair of
\* that update, both at the cursor line; after _update ran (construction,
\* model change, registry change with a model) there is none.
C21_SingleGoal ==
    /\ Cardinality(zones) <= 1
    /\ Cardinality(widgets) <= 1
    /\ Painted =>
           /\ \E z \in zones :
                  /\ zones = { z }
                  /\ _viewZoneIds = << z.id >>
                  /\ z.from = lastPaint.req.seq
                  /\ z.afterLineNumber = position
           /\ \E w \in widgets :
                  /\ widgets = { w }
                  /\ _contentWidgets = << w >>
                  /\ w.from = lastPaint.req.seq
                  /\ w.lineNumber = position
    /\ ( event \in { "init", "model" } \/ (event = "registry" /\ edModel # NoModel) ) =>
           /\ zones = {} /\ _viewZoneIds = << >>
           /\ widgets = {} /\ _contentWidgets = << >>

-----------------------------------------------------------------------------
(* GoalViewZone on its own: the editor reports the computed height of the   *)
(* zone any number of times.  pin holds the heights reported so far, pout   *)
(* the zone: _lastHeight (<< >> for undefined, << h >> for the number h)    *)
(* and the number of calls of the onHeight callback.                        *)

\* heights reported to one zone
MaxReports == 4

Heights == { 0, 20, 40 }

\* new GoalViewZone(...): _lastHeight is undefined, onHeight not yet called
NewGoalViewZone == [ _lastHeight |-> << >>, onHeightCalls |-> 0 ]

\* Faulty variant of onComputedHeight: `!this._lastHeight` for `=== undefined`
onComputedHeightFalsy(zone, height) ==
    IF zone._lastHeight = << >> \/ zone._lastHeight = << 0 >>
    THEN [ zone EXCEPT !._lastHeight = << height >> ]
    ELSE IF zone._lastHeight # << height >>
    THEN [ zone EXCEPT !._lastHeight = << height >>, !.onHeightCalls = @ + 1 ]
    ELSE zone

onComputedHeight(zone, height) ==
    IF zone._lastHeight = << >>
    THEN [ zone EXCEPT !._lastHeight = << height >> ]
    ELSE IF zone._lastHeight # << height >>
    THEN [ zone EXCEPT !._lastHeight = << height >>, !.onHeightCalls = @ + 1 ]
    ELSE zone

InitZone ==
    /\ Is(Constructed(NoModel, {}))
    /\ event = "init"
    /\ lastPaint = NoPaint
    /\ latestState = 0
    /\ pin = [ f |-> "onComputedHeight", reports |-> << >> ]
    /\ pout = NewGoalViewZone

CallOnComputedHeight ==
    /\ pin.f = "onComputedHeight"
    /\ Len(pin.reports) < MaxReports
    /\ \E height \in Heights :
           /\ pin' = [ pin EXCEPT !.reports = Append(@, height) ]
           /\ pout' = onComputedHeight(pout, height)
    /\ MainUnchanged

NextZone == CallOnComputedHeight

SpecZone == InitZone /\ [][NextZone]_vars

\* C22: onHeight has been called once per report that differs from the report
\* before it (so not for the first report and not for a repeated height), and
\* _lastHeight is the most recently reported height.
C22_OnComputedHeight ==
    pin.f = "onComputedHeight" =>
        LET r == pin.reports
        IN  /\ pout.onHeightCalls = Cardinality({ i \in 2..Len(r) : r[i] # r[i - 1] })
            /\ pout._lastHeight = IF r = << >> THEN << >> ELSE << r[Len(r)] >>

\* C22 witness: height 0 first, 20 next (a call), 20 again (no call)
C22_Witness ==
    /\ pin.f = "onComputedHeight"
    /\ pin.reports = << 0, 20, 20 >>
    /\ pout.onHeightCalls = 1
    /\ pout._lastHeight = << 20 >>

-----------------------------------------------------------------------------
(* C23: GoalContentWidget ids *)

\* C23: every widget constructed in a step gets the next value of the static
\* _idPool, which only grows: the ids of the new widgets are the numbers from
\* the old _idPool up to the new one, one widget each, every widget's id is
\* below _idPool, and no two widgets share an id.
C23_WidgetIdsUnique ==
    [][ LET new == widgets' \ widgets
        IN  /\ _idPool' = _idPool + Cardinality(new)
            /\ { w.id : w \in new } = _idPool .. (_idPool' - 1)
            /\ \A w \in widgets' : w.id < _idPool'
            /\ \A w1, w2 \in widgets' : w1.id = w2.id => w1 = w2
      ]_vars

\* C23 witness: a second update constructed two widgets after a first one had
C23_Witness ==
    /\ Cardinality(widgets) = 2
    /\ \A w \in widgets : w.id >= 2 /\ w.from = 2

-----------------------------------------------------------------------------
(* The per-line revision of the contribution (part_002): no provider, no    *)
(* await.  _updateDecorations replaces the tracked decorations by one per   *)
(* line of the attached model, synchronously, at construction, on every     *)
(* model change and on every content change.  Here the text of the models   *)
(* is edited: modelLines changes.                                           *)

\* lines of a text model
MaxLines == 3

\* A text is one to MaxLines lines: "x" and the empty line in turn
Texts ==
    { [ i \in 1..n |-> IF i % 2 = 1 THEN << "x" >> ELSE << >> ] : n \in 1..MaxLines }

_removeAllDecorationsLines(s) ==
    [ removeDecorations(s, s._decorationIds) EXCEPT !._decorationIds = << >> ]

\* The decorations pushed by the loop `for (line = 1; line <= getLineCount(); line++)`;
\* the content `Line ${line}: ${lineContent.length}` is kept as its parts
LineDecorations(text) ==
    [ line \in 1..Len(text) |->
        [ lineNumber |-> line, content |-> << "Line", line, Len(text[line]) >>,
          inlineClassName |-> "yo" ] ]

\* Faulty variant of _updateDecorationsLines: the loop stops before the last line
_updateDecorationsLinesSkipLast(s) ==
    LET Decorate(t) ==
          LET text == t.modelLines[t.edModel]
              decorations_ == SubSeq(LineDecorations(text), 1, Len(text) - 1)
              newDecorationIds == deltaDecorationsIds(t, Len(decorations_))
              t1 == deltaDecorations(t, t._decorationIds, decorations_,
                                     [ seq |-> 0, model |-> t.edModel ])
          IN  [ t1 EXCEPT !._decorationIds = newDecorationIds ]
    IN  changeDecorations(s, Decorate)

\* _updateDecorations of part_002
_updateDecorationsLines(s) ==
    LET Decorate(t) ==
          LET decorations_ == LineDecorations(t.modelLines[t.edModel])
              newDecorationIds == deltaDecorationsIds(t, Len(decorations_))
              t1 == deltaDecorations(t, t._decorationIds, decorations_,
                                     [ seq |-> 0, model |-> t.edModel ])
          IN  [ t1 EXCEPT !._decorationIds = newDecorationIds ]
    IN  changeDecorations(s, Decorate)

_updateLines(s) ==
    LET s1 == [ s EXCEPT !.sessionListeners = 0 ]
        s2 == _removeAllDecorationsLines(s1)
        s3 == [ s2 EXCEPT !.sessionListeners = @ + 1 ]
    IN  _updateDecorationsLines(s3)

InitLines ==
    /\ \E m \in Models \cup { NoModel }, text \in [ Models -> Texts ] :
           Is(_updateLines([ Fresh(m, {}) EXCEPT !.modelLines = text ]))
    /\ event = "init"
    /\ lastPaint = NoPaint
    /\ latestState = 0
    /\ pin = NoInput
    /\ pout = NoOutput

RECURSIVE FireContentListenersLines(_, _)
FireContentListenersLines(s, n) ==
    IF n = 0 THEN s ELSE FireContentListenersLines(_updateDecorationsLines(s), n - 1)

\* The attached model is edited; its decorations stay in it until replaced
ContentChangeLines ==
    /\ edModel # NoModel
    /\ \E text \in Texts \ { modelLines[edModel] } :
           Step(FireContentListenersLines([ S EXCEPT !.modelLines[edModel] = text ],
                                          sessionListeners), "content")

SetModelLines ==
    \E m \in (Models \cup { NoModel }) \ { edModel } :
        LET s1 == [ S EXCEPT !.edModel = m,
                             !.position = IF m = NoModel THEN NoPosition ELSE 1 ]
            s2 == _updateLines(s1)
            s3 == IF edModel = NoModel THEN s2
                  ELSE [ s2 EXCEPT !.decorations[edModel] = {} ]
        IN  Step(s3, "model")

NextLines ==
    \/ ContentChangeLines
    \/ SetModelLines

SpecLines == InitLines /\ [][NextLines]_vars

\* One tracked decoration per line of the attached model, none without a model
TrackedPerLine ==
    /\ Len(_decorationIds) = IF edModel = NoModel THEN 0 ELSE Len(modelLines[edModel])
    /\ Cardinality(TrackedDecorationIds) = Len(_decorationIds)
    /\ edModel # NoModel =>
           /\ TrackedDecorationIds = { d.id : d \in decorations[edModel] }
           /\ \A l \in 1..Len(modelLines[edModel]) :
                  Cardinality({ d \in decorations[edModel] : d.lineNumber = l }) = 1

====
